---- MODULE Spec2Model ----
\* Model of pyod/models/auto_encoder.py: the AutoEncoder detector's
\* constructor, fit and decision_function, over a heap of Python list objects
\* (lists are passed and stored by reference).
EXTENDS Integers, Sequences, FiniteSets, TLC

VARIABLES heap, det, given, fits, last

vars == <<heap, det, given, fits, last>>

\* ------------------------------------------------------------------ bounds
MaxFits == 2
MaxRows == 2

\* ------------------------------------------------------------------ inputs
Insts == {"A", "B"}

\* The list object created once, when `def __init__` is evaluated.
DefaultHiddenNeurons == <<64, 32, 32, 64>>

\* Lists a caller writes out explicitly; <<4, 8>> is not a palindrome.
CallerLists == {<<2, 2>>, <<4, 8>>}

\* Column counts of the matrices handed to fit and decision_function.
FeatureCounts == {2, 40}

\* Outcomes of the opaque training run: the trained weights.
Weights == {0, 1}

\* A matrix with f columns and n rows; row i holds the value i-1 in every
\* column, so rows are pairwise different. Every matrix has MaxRows rows.
Matrix(f, n) == [cols |-> f, rows |-> [i \in 1..n |-> i - 1]]

Matrices == {Matrix(f, n) : f \in FeatureCounts, n \in {MaxRows}}

NoMatrix == [cols |-> 0, rows |-> << >>]

Perms(n) == {p \in [1..n -> 1..n] : \A i, j \in 1..n : p[i] = p[j] => i = j}

\* The permutations the shuffle can apply to a matrix and the one that leaves
\* it as it is.
ShufflePerms == Perms(MaxRows)
Identity == [k \in 1..MaxRows |-> k]

\* ------------------------------------------------------------- pure helpers
RECURSIVE SeqMin(_)
SeqMin(s) ==
    IF Len(s) = 1 THEN s[1]
    ELSE LET m == SeqMin(Tail(s)) IN IF s[1] < m THEN s[1] ELSE m

RECURSIVE SeqSum(_)
SeqSum(s) == IF s = << >> THEN 0 ELSE s[1] + SeqSum(Tail(s))

Reverse(s) == [i \in 1..Len(s) |-> s[Len(s) + 1 - i]]

RECURSIVE InsertSorted(_, _)
InsertSorted(x, s) ==
    IF s = << >> THEN <<x>>
    ELSE IF x <= s[1] THEN <<x>> \o s
    ELSE <<s[1]>> \o InsertSorted(x, Tail(s))

RECURSIVE Sorted(_)
Sorted(s) == IF s = << >> THEN << >> ELSE InsertSorted(s[1], Sorted(Tail(s)))

\* np.median, doubled so that the mean of two middle elements stays integral.
Median2(s) ==
    LET t == Sorted(s)
        n == Len(t)
    IN  IF n % 2 = 1 THEN 2 * t[(n + 1) \div 2]
        ELSE t[n \div 2] + t[n \div 2 + 1]

\* n_features_ // encoding_dim_ with encoding_dim_ held doubled.
FloorDivByMedian(f, m2) == (2 * f) \div m2

\* list.insert(0, x)
Insert0(s, x) == <<x>> \o s

\* np.random.shuffle: rows rearranged by the permutation drawn.
Shuffle(rows, p) == [i \in 1..Len(rows) |-> rows[p[i]]]

\* StandardScaler: fitted state and transform. The centred value is kept
\* multiplied by the row count so that it stays an integer.
ScalerFit(X) == [n_features |-> X.cols, sum |-> SeqSum(X.rows), n |-> Len(X.rows)]

ScalerTransform(sc, rows) == [i \in 1..Len(rows) |-> sc.n * rows[i] - sc.sum]

NoScaler == [n_features |-> 0, sum |-> 0, n |-> 0]

\* keras Sequential: the widths of its Dense layers and its weights.
NoModel == [layers |-> << >>, input |-> 0, w |-> 0]

Predict(m, rows) == [i \in 1..Len(rows) |-> m.w * rows[i]]

\* pairwise_distances_no_broadcast: row-wise distance between two row-aligned
\* matrices, kept squared; every column of a row holds the same value.
PairwiseDistances(cols, a, b) ==
    [i \in 1..Len(a) |-> cols * (a[i] - b[i]) * (a[i] - b[i])]

\* --------------------------------------------------------------- detector
\* An instance before __init__ has run: attrs is the set of attribute names
\* present in the instance dictionary.
Blank ==
    [attrs |-> {}, hidden_neurons |-> "none", hidden_neurons_ |-> "none",
     preprocessing |-> FALSE, n_samples_ |-> 0, n_features_ |-> 0,
     scaler_ |-> NoScaler, encoding_dim_ |-> 0, compression_rate_ |-> 0,
     model_ |-> NoModel, history_ |-> << >>, decision_scores_ |-> << >>]

NoCall == [op |-> "none", inst |-> "A", outcome |-> "none", X |-> NoMatrix,
           built |-> FALSE, scores |-> << >>]

\* ---------------------------------------------------------------- methods
\* AutoEncoder.__init__: both width attributes are bound to the list object
\* passed in; the symmetry check runs after the attributes are set.
init(heap_, ref, pre) ==
    LET self == [Blank EXCEPT
                   !.attrs = {"hidden_neurons", "hidden_neurons_", "preprocessing"},
                   !.hidden_neurons = ref,
                   !.hidden_neurons_ = ref,
                   !.preprocessing = pre]
    IN  [self |-> self,
         outcome |-> IF heap_[ref] = Reverse(heap_[ref]) THEN "ok" ELSE "ValueError"]

\* AutoEncoder._build_model: one Dense layer per entry of hidden_neurons_,
\* then the output layer of width n_features_; weights untrained.
build_model(self, heap_) ==
    LET hn == heap_[self.hidden_neurons_]
    IN  [layers |-> <<hn[1]>> \o SubSeq(hn, 2, Len(hn)) \o <<self.n_features_>>,
         input |-> self.n_features_,
         w |-> 0]

\* Variant of the guard that also rejects equality.
NeuronsExceedFeatures_geq(hn, f) == SeqMin(hn) >= f

\* The test that guards the prepend in fit.
NeuronsExceedFeatures(hn, f) == SeqMin(hn) > f

\* Variant that scores the shuffled training copy.
ScoringInput_shuffled(self, X, shuffled) == shuffled

\* The matrix that is scored after training: recreated from X, because the
\* training copy was shuffled.
ScoringInput(self, X, shuffled) ==
    IF self.preprocessing THEN ScalerTransform(self.scaler_, X.rows) ELSE X.rows

\* AutoEncoder.fit, statement by statement. p is the permutation drawn by the
\* shuffle, w the weights training ends with, trainfail whether the training
\* engine raises.
fit(self, heap_, X, p, w, trainfail) ==
    LET s1 == [self EXCEPT !.attrs = @ \cup {"n_samples_", "n_features_"},
                           !.n_samples_ = Len(X.rows),
                           !.n_features_ = X.cols]
        s2 == IF s1.preprocessing
              THEN [s1 EXCEPT !.attrs = @ \cup {"scaler_"}, !.scaler_ = ScalerFit(X)]
              ELSE s1
        X_norm == IF s2.preprocessing THEN ScalerTransform(s2.scaler_, X.rows)
                  ELSE X.rows
        shuffled == Shuffle(X_norm, p)
    IN  IF NeuronsExceedFeatures(heap_[s2.hidden_neurons], s2.n_features_)
        THEN [self |-> s2, heap |-> heap_, X |-> X, outcome |-> "incompatible",
              built |-> FALSE]
        ELSE
        LET heap2 == [heap_ EXCEPT ![s2.hidden_neurons_] = Insert0(@, s2.n_features_)]
            enc == Median2(heap2[s2.hidden_neurons])
            s3 == [s2 EXCEPT !.attrs = @ \cup {"encoding_dim_", "compression_rate_"},
                             !.encoding_dim_ = enc,
                             !.compression_rate_ = FloorDivByMedian(s2.n_features_, enc)]
            s4 == [s3 EXCEPT !.attrs = @ \cup {"model_"},
                             !.model_ = build_model(s3, heap2)]
        IN  IF trainfail
            THEN [self |-> s4, heap |-> heap2, X |-> X, outcome |-> "train_error",
                  built |-> TRUE]
            ELSE
            LET s5 == [s4 EXCEPT !.attrs = @ \cup {"history_"},
                                 !.model_.w = w,
                                 !.history_ = <<shuffled[Len(shuffled)]>>]
                X_norm2 == ScoringInput(s5, X, shuffled)
                pred_scores == Predict(s5.model_, X_norm2)
                s6 == [s5 EXCEPT !.attrs = @ \cup {"decision_scores_"},
                                 !.decision_scores_ =
                                     PairwiseDistances(X.cols, X_norm2, pred_scores)]
            IN  [self |-> s6, heap |-> heap2, X |-> X, outcome |-> "ok",
                 built |-> TRUE]

\* Variant that is satisfied by any one of the attributes.
check_is_fitted_any(self) == {"model_", "history_"} \cap self.attrs # {}

\* sklearn's check_is_fitted(self, ['model_', 'history_']): all must be present.
check_is_fitted(self) == {"model_", "history_"} \subseteq self.attrs

\* Variant that records the shape of its input on the instance first, as
\* fit does.
decision_function_shape(self, X) ==
    LET s1 == [self EXCEPT !.n_samples_ = Len(X.rows), !.n_features_ = X.cols]
    IN  IF ~check_is_fitted(self)
        THEN [self |-> s1, X |-> X, outcome |-> "NotFittedError", scores |-> << >>]
        ELSE IF self.preprocessing /\ self.scaler_.n_features # X.cols
        THEN [self |-> s1, X |-> X, outcome |-> "ShapeError", scores |-> << >>]
        ELSE IF self.model_.input # X.cols
        THEN [self |-> s1, X |-> X, outcome |-> "ShapeError", scores |-> << >>]
        ELSE
        LET X_norm == IF self.preprocessing
                      THEN ScalerTransform(self.scaler_, X.rows) ELSE X.rows
            pred_scores == Predict(self.model_, X_norm)
        IN  [self |-> s1, X |-> X, outcome |-> "ok",
             scores |-> PairwiseDistances(X.cols, X_norm, pred_scores)]

\* AutoEncoder.decision_function: the instance as the call leaves it, the
\* exception raised (or "ok") and the scores returned.
decision_function(self, X) ==
    IF ~check_is_fitted(self)
    THEN [self |-> self, X |-> X, outcome |-> "NotFittedError", scores |-> << >>]
    ELSE IF self.preprocessing /\ self.scaler_.n_features # X.cols
    THEN [self |-> self, X |-> X, outcome |-> "ShapeError", scores |-> << >>]
    ELSE IF self.model_.input # X.cols
    THEN [self |-> self, X |-> X, outcome |-> "ShapeError", scores |-> << >>]
    ELSE
    LET X_norm == IF self.preprocessing THEN ScalerTransform(self.scaler_, X.rows)
                  ELSE X.rows
        pred_scores == Predict(self.model_, X_norm)
    IN  [self |-> self, X |-> X, outcome |-> "ok",
         scores |-> PairwiseDistances(X.cols, X_norm, pred_scores)]

\* ------------------------------------------------------------------ state
Constructed(i) == det[i].attrs # {}

Init ==
    /\ heap = [r \in {"default", "A", "B"} |->
                 IF r = "default" THEN DefaultHiddenNeurons ELSE << >>]
    /\ det = [i \in Insts |-> Blank]
    /\ given = [i \in Insts |-> << >>]
    /\ fits = [i \in Insts |-> [calls |-> 0, ok |-> 0]]
    /\ last = NoCall

\* AutoEncoder(preprocessing=pre): hidden_neurons defaults to the shared list.
ConstructDefault(i, pre) ==
    /\ ~Constructed(i)
    /\ \E r \in {init(heap, "default", pre)} :
           /\ det' = [det EXCEPT ![i] = IF r.outcome = "ok" THEN r.self ELSE @]
           /\ given' = [given EXCEPT ![i] = IF r.outcome = "ok" THEN heap["default"] ELSE @]
           /\ last' = [NoCall EXCEPT !.op = "construct_default", !.inst = i,
                                     !.outcome = r.outcome]
    /\ UNCHANGED <<heap, fits>>

\* AutoEncoder(hidden_neurons=l, preprocessing=pre) with a list the caller
\* has just created.
ConstructWith(i, l, pre) ==
    /\ ~Constructed(i)
    /\ LET h == [heap EXCEPT ![i] = l]
           r == init(h, i, pre)
       IN  /\ heap' = IF r.outcome = "ok" THEN h ELSE heap
           /\ det' = [det EXCEPT ![i] = IF r.outcome = "ok" THEN r.self ELSE @]
           /\ given' = [given EXCEPT ![i] = IF r.outcome = "ok" THEN l ELSE @]
           /\ last' = [NoCall EXCEPT !.op = "construct", !.inst = i,
                                     !.outcome = r.outcome]
    /\ UNCHANGED fits

Fit(i, X, p, w, trainfail) ==
    /\ Constructed(i)
    /\ fits["A"].calls + fits["B"].calls < MaxFits
    /\ \E r \in {fit(det[i], heap, X, p, w, trainfail)} :
           /\ det' = [det EXCEPT ![i] = r.self]
           /\ heap' = r.heap
           /\ fits' = [fits EXCEPT ![i].calls = @ + 1,
                                   ![i].ok = IF r.outcome = "ok" THEN @ + 1 ELSE @]
           /\ last' = [NoCall EXCEPT !.op = "fit", !.inst = i, !.outcome = r.outcome,
                                     !.X = r.X, !.built = r.built]
    /\ UNCHANGED given

DecisionFunction(i, X) ==
    /\ Constructed(i)
    /\ \E r \in {decision_function(det[i], X)} :
           /\ det' = [det EXCEPT ![i] = r.self]
           /\ last' = [NoCall EXCEPT !.op = "decision_function", !.inst = i,
                                     !.outcome = r.outcome, !.X = r.X,
                                     !.scores = r.scores]
    /\ UNCHANGED <<heap, given, fits>>

Next ==
    \/ \E i \in Insts, pre \in BOOLEAN : ConstructDefault(i, pre)
    \/ \E i \in Insts, l \in CallerLists, pre \in BOOLEAN : ConstructWith(i, l, pre)
    \/ \E i \in Insts, X \in Matrices, w \in Weights, p \in ShufflePerms :
         Fit(i, X, p, w, FALSE)
    \/ \E i \in Insts, X \in Matrices : Fit(i, X, Identity, 0, TRUE)
    \/ \E i \in Insts, X \in Matrices : DecisionFunction(i, X)

Spec == Init /\ [][Next]_vars

\* ----------------------------------------------------------------- claims
FitSucceeded == last.op = "fit" /\ last.outcome = "ok"

\* The value of the list an attribute of instance i refers to.
HiddenNeurons(i) == heap[det[i].hidden_neurons]
HiddenNeurons_(i) == heap[det[i].hidden_neurons_]

\* C1: after a successful fit on f columns, hidden_neurons_[0] = n_features_
\* = f and hidden_neurons_[1:] equals the hidden_neurons configuration field.
C1_EffectiveWidths ==
    FitSucceeded =>
        LET i == last.inst
        IN  /\ HiddenNeurons_(i)[1] = det[i].n_features_
            /\ det[i].n_features_ = last.X.cols
            /\ Tail(HiddenNeurons_(i)) = HiddenNeurons(i)

\* C2: after a successful fit, encoding_dim_ is the median of the widths as
\* given at construction and compression_rate_ is n_features_ floor-divided
\* by that median.
C2_EncodingFromOriginalWidths ==
    FitSucceeded =>
        LET i == last.inst
        IN  /\ det[i].encoding_dim_ = Median2(given[i])
            /\ det[i].compression_rate_ =
                   FloorDivByMedian(det[i].n_features_, Median2(given[i]))

\* What a first fit of a freshly constructed detector, built with the widths
\* and preprocessing flag instance i was built with, produces on X.
FreshFit(i, X) ==
    LET h0 == [r \in {"default", "A", "B"} |-> IF r = i THEN given[i] ELSE << >>]
        c == init(h0, i, det[i].preprocessing)
        r == fit(c.self, h0, X, Identity, 0, FALSE)
    IN  [n_features_ |-> r.self.n_features_,
         hidden_neurons_ |-> r.heap[r.self.hidden_neurons_],
         encoding_dim_ |-> r.self.encoding_dim_,
         compression_rate_ |-> r.self.compression_rate_,
         layers |-> r.self.model_.layers,
         n_scores |-> Len(r.self.decision_scores_)]

\* C3: a repeated fit that succeeds leaves every fitted field equal to what a
\* first fit of a fresh detector with the same constructor arguments produces
\* on that data.
C3_RefitReplacesFittedState ==
    (FitSucceeded /\ fits[last.inst].ok >= 2) =>
        LET i == last.inst
        IN  [n_features_ |-> det[i].n_features_,
             hidden_neurons_ |-> HiddenNeurons_(i),
             encoding_dim_ |-> det[i].encoding_dim_,
             compression_rate_ |-> det[i].compression_rate_,
             layers |-> det[i].model_.layers,
             n_scores |-> Len(det[i].decision_scores_)] = FreshFit(i, last.X)

\* C4: a fit call, successful or failing, leaves hidden_neurons (the
\* attribute and the list it refers to) and preprocessing as they were.
C4_FitKeepsConfiguration ==
    [][last'.op = "fit" =>
          LET i == last'.inst
          IN  /\ det'[i].hidden_neurons = det[i].hidden_neurons
              /\ heap'[det'[i].hidden_neurons] = heap[det[i].hidden_neurons]
              /\ det'[i].preprocessing = det[i].preprocessing]_vars

\* What instance j exposes of its width lists.
Widths(h, d, j) ==
    IF d[j].attrs = {} THEN << >>
    ELSE <<h[d[j].hidden_neurons], h[d[j].hidden_neurons_]>>

\* C5: an operation on one instance leaves the other instance's widths
\* untouched, and constructing with the default hidden_neurons succeeds
\* whatever was done to other instances.
C5_InstancesIndependent ==
    [][/\ \A j \in Insts :
            (last'.inst # j /\ last'.op # "none") =>
                Widths(heap', det', j) = Widths(heap, det, j)
       /\ last'.op = "construct_default" => last'.outcome = "ok"]_vars

\* The distance of one row holding v from its reconstruction by instance i.
RowScore(i, cols, v) ==
    LET x == IF det[i].preprocessing
             THEN det[i].scaler_.n * v - det[i].scaler_.sum ELSE v
        y == det[i].model_.w * x
    IN  cols * (x - y) * (x - y)

\* C6: after a successful fit on n rows, decision_scores_ has n entries, entry
\* k is the reconstruction distance of row k of X in the caller's order, and
\* X itself still holds its rows in that order.
C6_ScoresInOriginalOrder ==
    FitSucceeded =>
        LET i == last.inst
            X == last.X
        IN  /\ Len(det[i].decision_scores_) = Len(X.rows)
            /\ det[i].n_samples_ = Len(X.rows)
            /\ \A k \in 1..Len(X.rows) :
                   det[i].decision_scores_[k] = RowScore(i, X.cols, k - 1)
            /\ X = Matrix(X.cols, Len(X.rows))

\* A successful fit whose shuffle moved the first row to the held-out end and
\* whose rows score differently.
C6_Witness ==
    /\ FitSucceeded
    /\ ~det[last.inst].preprocessing
    /\ det[last.inst].history_ = <<last.X.rows[1]>>
    /\ det[last.inst].decision_scores_[1] # det[last.inst].decision_scores_[2]

\* C7: a fit call fails with the data-incompatibility error, before any
\* network is built, exactly when the minimum of the widths given at
\* construction exceeds the column count of the data of that call.
C7_IncompatibleIffMinExceeds ==
    last.op = "fit" =>
        /\ (last.outcome = "incompatible") <=> (SeqMin(given[last.inst]) > last.X.cols)
        /\ last.outcome = "incompatible" => ~last.built

\* A fit rejected on a detector that was fitted before, and a later fit
\* accepted on one.
C7_Witness ==
    /\ last.op = "fit"
    /\ last.outcome = "incompatible"
    /\ fits[last.inst].ok >= 1
    /\ Len(HiddenNeurons(last.inst)) > Len(given[last.inst])

C9_DecisionFunctionReadOnly ==
    [][last'.op = "decision_function" =>
          /\ det' = det
          /\ heap' = heap
          /\ last'.X \in Matrices]_vars

\* decision_function has returned scores on a fitted detector.
C9_Witness ==
    /\ last.op = "decision_function"
    /\ last.outcome = "ok"
    /\ Len(last.scores) = Len(last.X.rows)
    /\ fits[last.inst].ok >= 1

\* C10: a fit that fails with the data-incompatibility error leaves every
\* attribute of the detector, and its effective width list, as before.
C10_RejectedFitKeepsFittedState ==
    [][(last'.op = "fit" /\ last'.outcome = "incompatible") =>
          /\ det'[last'.inst] = det[last'.inst]
          /\ heap' = heap]_vars

====
